---------------------------- MODULE Spec2Model ----------------------------
(***************************************************************************)
(* A model of the ALOGIT interface of the choice_model package             *)
(* (src/choice_model/interface/alogit.py) and of the synthetic model       *)
(* builder (src/choice_model/synthetic.py).                                *)
(*                                                                         *)
(* Python strings are TLA+ strings, Python lists are sequences, Python     *)
(* dicts with a significant insertion order (the model's availability,     *)
(* intercepts, alternative dependent variables and specification) are      *)
(* sequences of <<key, value>> pairs, and dicts that are only looked up    *)
(* (abbreviation, elongation, the parsed results) are functions.  A float  *)
(* is the integer number of hundredths it denotes.  An attribute of the    *)
(* instance that may be read before it is assigned (the parsed results,    *)
(* process) holds Unset until then and <<value>> afterwards.               *)
(***************************************************************************)
EXTENDS Integers, Sequences, FiniteSets, TLC

VARIABLES
    pc,                     \* "init" before __init__, "ready" after, "failed"
    model,                  \* self.model
    kw_data_file,           \* the data_file keyword argument (None if absent)
    data_file,              \* self.data_file
    abbreviation,           \* self.abbreviation
    elongation,             \* self.elongation
    column_labels,          \* self.column_labels
    alo,                    \* self.alo
    _estimated,             \* self._estimated
    _parameters,            \* self._parameters
    _errors,                \* self._errors
    _t_values,              \* self._t_values
    _null_log_likelihood,   \* self._null_log_likelihood
    _final_log_likelihood,  \* self._final_log_likelihood
    _estimation_time,       \* self._estimation_time
    process,                \* self.process
    log_file,               \* the lines of the .LOG file on disk
    alo_file_lines,         \* the lines of the .alo file on disk
    data,                   \* model.data: the columns of the data frame
    data_file_table,        \* the columns of the data file on disk
    arguments,              \* the arguments synthetic_model is called with
    exits,                  \* the exit statuses of the solver runs so far
    ret                     \* the last call and what it returned or raised

vars == <<pc, model, kw_data_file, data_file, abbreviation, elongation,
          column_labels, alo, _estimated, _parameters, _errors, _t_values,
          _null_log_likelihood, _final_log_likelihood, _estimation_time,
          process, log_file, alo_file_lines, data, data_file_table, arguments,
          exits, ret>>

None == "<None>"
Unset == <<>>
EmptyDict == [x \in {} |-> x]

---------------------------------------------------------------------------
(* Python string and list primitives *)

Range(s) == {s[i] : i \in 1..Len(s)}

RECURSIVE Join(_, _)
\* sep.join(words)
Join(words, sep) ==
    IF Len(words) = 0 THEN ""
    ELSE IF Len(words) = 1 THEN words[1]
    ELSE words[1] \o sep \o Join(Tail(words), sep)

\* sub in s
Contains(s, sub) ==
    \E i \in 1..(Len(s) - Len(sub) + 1) : SubSeq(s, i, i + Len(sub) - 1) = sub

\* the k-th smallest element of a set of numbers
Nth(P, k) == CHOOSE p \in P : Cardinality({q \in P : q < p}) = k - 1

\* s.split(c): the pieces of s between the occurrences of the character c
split_on(s, c) ==
    LET P == {i \in 1..Len(s) : SubSeq(s, i, i) = c}
        n == Cardinality(P)
        cut(k) == IF k = 0 THEN 0 ELSE IF k = n + 1 THEN Len(s) + 1 ELSE Nth(P, k)
    IN  [k \in 1..(n + 1) |-> SubSeq(s, cut(k - 1) + 1, cut(k) - 1)]

\* s.split(): the whitespace separated words of s (the only whitespace in
\* the strings of this model is the space)
split(s) == SelectSeq(split_on(s, " "), LAMBDA w : w # "")

\* the value of a dict kept as a sequence of <<key, value>> pairs
Lookup(d, k) == d[CHOOSE i \in 1..Len(d) : d[i][1] = k][2]
keys(d) == [i \in 1..Len(d) |-> d[i][1]]
values(d) == [i \in 1..Len(d) |-> d[i][2]]

RECURSIVE Flatten(_)
Flatten(ss) == IF Len(ss) = 0 THEN <<>> ELSE Head(ss) \o Flatten(Tail(ss))

\* dict(zip(ks, vs)): a later pair with the same key replaces an earlier one
dict_zip(ks, vs) ==
    LET n == IF Len(ks) < Len(vs) THEN Len(ks) ELSE Len(vs)
        last(k) == CHOOSE i \in 1..n : ks[i] = k /\ \A j \in (i+1)..n : ks[j] # k
    IN  [k \in {ks[i] : i \in 1..n} |-> vs[last(k)]]


---------------------------------------------------------------------------
(* The synthetic model builder and the model family *)

MaxAlternatives == 3
MaxVariables == 2

\* 'alternative{}'.format(number) and the like
format1(prefix, number) == prefix \o ToString(number)

\* MultinomialLogit's reading of a utility string "c1 + p1*v1 + p2*v2": a
\* word holding '*' is a parameter*variable term, another word that is not
\* '+' is the intercept
Utility(string) ==
    LET words == SelectSeq(split(string), LAMBDA w : w # "+")
        isTerm(w) == Contains(w, "*")
        ics == SelectSeq(words, LAMBDA w : ~isTerm(w))
        tms == SelectSeq(words, isTerm)
    IN  [intercept |-> IF Len(ics) = 0 THEN None ELSE ics[1],
         terms |-> [i \in 1..Len(tms) |->
                      [parameter |-> split_on(tms[i], "*")[1],
                       variable |-> split_on(tms[i], "*")[2]]]]

\* MultinomialLogit(...): the model object; the utility strings are parsed
MultinomialLogit(title, alternatives, choice_column, availability, aiv, adv, intercepts, parameters, specification) ==
    [type |-> "MultinomialLogit",
     title |-> title,
     alternatives |-> alternatives,
     choice_column |-> choice_column,
     availability |-> availability,
     alternative_independent_variables |-> aiv,
     alternative_dependent_variables |-> adv,
     intercepts |-> intercepts,
     parameters |-> parameters,
     specification |-> [i \in 1..Len(specification) |->
                          <<specification[i][1], Utility(specification[i][2])>>]]

\* every alternative is given an intercept
all_alternatives(alternatives) == alternatives

\* alternatives[:-1]
all_but_last(alternatives) == SubSeq(alternatives, 1, Len(alternatives) - 1)

\* synthetic_model(title, number_of_alternatives, number_of_variables), for
\* number_of_alternatives >= 1 (alternatives[-1] raises IndexError for 0)
synthetic_model(title, number_of_alternatives, number_of_variables) ==
    LET n == number_of_alternatives
        alternatives == [number \in 1..n |-> format1("alternative", number)]
        availability == [number \in 1..n |->
            <<alternatives[number], format1("availability", number)>>]
        variables == [number \in 1..number_of_variables |->
            <<format1("variable", number),
              [a \in 1..n |-> <<alternatives[a],
                  alternatives[a] \o "_" \o format1("variable", number)>>]>>]
        intercepts == [number \in 1..Len(all_but_last(alternatives)) |->
            <<alternatives[number], format1("c", number)>>]
        parameters == [number \in 1..number_of_variables |->
            format1("parameter", number)]
        all_vars == keys(variables)
        products == [k \in 1..number_of_variables |->
            Join(<<parameters[k], all_vars[k]>>, "*")]
        linear_combination == Join(products, " + ")
        specification == [a \in 1..n |->
            IF a < n
            THEN <<alternatives[a],
                   Join(<<Lookup(intercepts, alternatives[a]),
                          linear_combination>>, " + ")>>
            ELSE <<alternatives[n], linear_combination>>]
    IN  MultinomialLogit(title, alternatives, "choice", availability, <<>>,
                         variables, intercepts, parameters, specification)

\* ChoiceModel.all_variables(): the alternative independent variables, then
\* the names of the alternative dependent ones
all_variables(m) ==
    m.alternative_independent_variables \o keys(m.alternative_dependent_variables)

\* ChoiceModel.alternative_dependent_variable_fields(): the columns of the
\* alternative dependent variables, variable by variable
alternative_dependent_variable_fields(m) ==
    Flatten([v \in 1..Len(m.alternative_dependent_variables) |->
                values(m.alternative_dependent_variables[v][2])])

\* ChoiceModel.all_variable_fields()
all_variable_fields(m) ==
    m.alternative_independent_variables \o alternative_dependent_variable_fields(m)

\* ChoiceModel.availability_fields()
availability_fields(m) == values(m.availability)

\* ChoiceModel.number_of_alternatives()
number_of_alternatives(m) == Len(m.alternatives)

\* ChoiceModel.number_of_parameters(include_intercepts)
number_of_parameters(m, include_intercepts) ==
    Len(m.parameters) + (IF include_intercepts THEN Len(m.intercepts) ELSE 0)

\* the records of the data a model is constructed with where the claim is
\* not about the data: one record, choosing the first alternative
one_record(m) == <<m.alternatives[1]>>

\* the column labels synthetic_data and synthetic_data_uniform give the data
\* frame
data_columns(m) ==
    all_variable_fields(m) \o availability_fields(m) \o <<m.choice_column>>

---------------------------------------------------------------------------
(* The data frame: a list of labelled columns, each a list of cells *)

MaxObservations == 2

\* the cells of a column whose values are the caller's: the r-th cell is
\* written label#r
cells(label, n) == [r \in 1..n |-> label \o "#" \o ToString(r)]

\* a data frame with the given column labels, whose column labelled
\* m.choice_column holds the chosen alternatives
DataFrame(m, labels, choices) ==
    [i \in 1..Len(labels) |->
        [label |-> labels[i],
         cells |-> IF labels[i] = m.choice_column THEN choices
                   ELSE cells(labels[i], Len(choices))]]

\* synthetic_data_uniform(model, number_of_records), choices being the
\* alternatives random.choice draws: the availability columns hold 1
synthetic_data_uniform(m, choices) ==
    [i \in 1..Len(data_columns(m)) |->
        LET label == data_columns(m)[i]
        IN  [label |-> label,
             cells |-> IF label = m.choice_column THEN choices
                       ELSE IF label \in Range(availability_fields(m))
                            THEN [r \in 1..Len(choices) |-> "1"]
                            ELSE cells(label, Len(choices))]]

\* list(data.columns)
columns(d) == [i \in 1..Len(d) |-> d[i].label]

\* data[label] = values: an existing column is overwritten where it stands,
\* a new one is added at the end
setitem(d, label, values_) ==
    IF label \in Range(columns(d))
    THEN [i \in 1..Len(d) |-> IF d[i].label = label
                              THEN [label |-> label, cells |-> values_] ELSE d[i]]
    ELSE Append(d, [label |-> label, cells |-> values_])

\* data.drop(columns=label, inplace=True)
drop(d, label) == SelectSeq(d, LAMBDA col : col.label # label)

\* data.to_csv(file, header=False, index=False, columns=labels): the cells
\* of the columns so labelled, in the order of labels
to_csv(d, labels) ==
    Flatten([i \in 1..Len(labels) |->
        LET cols == SelectSeq(d, LAMBDA col : col.label = labels[i])
        IN  [k \in 1..Len(cols) |-> cols[k].cells]])

\* list.index(x): the first position of x, 0 standing for ValueError
list_index(list, x) ==
    IF x \in Range(list) THEN CHOOSE i \in 1..Len(list) :
                                 list[i] = x /\ \A j \in 1..(i - 1) : list[j] # x
    ELSE 0

---------------------------------------------------------------------------
(* The abbreviation registry *)

_ALO_LABEL_CHOICE == "ch"
_ALO_LABEL_CHOICE_COLUMN == "alt"
_ALO_LABEL_AVAILABILITY == "av"
_ALO_LABEL_VARIABLE == "v"
_ALO_LABEL_CHOICE_DEPENDENT_VARIABLE == "cv"
\* an intercept label that collides with the label of the alternatives
_ALO_LABEL_INTERCEPT_clash == "ch"

_ALO_LABEL_INTERCEPT == "c"
_ALO_LABEL_PARAMETER == "prm"

\* [label + str(number) for number, _ in enumerate(names, start=1)]
numbered(label, names) == [number \in 1..Len(names) |-> label \o ToString(number)]

\* the list "full" of _create_abbreviations
full_names(m) ==
    m.alternatives \o <<m.choice_column>> \o values(m.availability)
    \o all_variables(m) \o alternative_dependent_variable_fields(m)
    \o values(m.intercepts) \o m.parameters

\* the list "abbreviations" of _create_abbreviations
abbreviations(m) ==
    numbered(_ALO_LABEL_CHOICE, m.alternatives)
    \o <<_ALO_LABEL_CHOICE_COLUMN>>
    \o numbered(_ALO_LABEL_AVAILABILITY, values(m.availability))
    \o numbered(_ALO_LABEL_VARIABLE, all_variables(m))
    \o numbered(_ALO_LABEL_CHOICE_DEPENDENT_VARIABLE,
                alternative_dependent_variable_fields(m))
    \o numbered(_ALO_LABEL_INTERCEPT, values(m.intercepts))
    \o numbered(_ALO_LABEL_PARAMETER, m.parameters)

\* _create_abbreviations: the two dicts it leaves on the instance
_create_abbreviations(m) ==
    [abbreviation |-> dict_zip(full_names(m), abbreviations(m)),
     elongation |-> dict_zip(abbreviations(m), full_names(m))]

\* abbreviate(string), on the instance's abbreviation dict
abbreviate(abbr, string) ==
    IF string \in DOMAIN abbr THEN abbr[string] ELSE string

\* elongate written like abbreviate: an unknown string comes back unchanged
elongate_lenient(elong, string) ==
    [exc |-> None, value |-> IF string \in DOMAIN elong THEN elong[string] ELSE string]

\* elongate(string), on the instance's elongation dict; a missing key raises
elongate(elong, string) ==
    IF string \in DOMAIN elong
    THEN [exc |-> None, value |-> elong[string]]
    ELSE [exc |-> "KeyError", value |-> None]

---------------------------------------------------------------------------
(* textwrap.wrap(string, width, break_long_words=False) *)

\* a slip in the width handed to textwrap
_MAX_LINE_LENGTH_wide == 77 + 3

_MAX_LINE_LENGTH == 77

IsSpace(chunk) == chunk # "" /\ SubSeq(chunk, 1, 1) = " "

\* TextWrapper._split: the maximal runs of spaces and of other characters
\* (the strings of this model hold no hyphen, where a word could be split)
Chunks(s) ==
    LET sp(i) == SubSeq(s, i, i) = " "
        B == {i \in 1..Len(s) : i = 1 \/ sp(i) # sp(i - 1)}
        n == Cardinality(B)
        start(k) == IF k = n + 1 THEN Len(s) + 1 ELSE Nth(B, k)
    IN  [k \in 1..n |-> SubSeq(s, start(k), start(k + 1) - 1)]

RECURSIVE Fill(_, _, _, _)
\* the inner loop of _wrap_chunks: the index after the last chunk that fits
Fill(chunks, j, cur_len, width) ==
    IF j <= Len(chunks) /\ cur_len + Len(chunks[j]) <= width
    THEN Fill(chunks, j + 1, cur_len + Len(chunks[j]), width)
    ELSE j

RECURSIVE _wrap_chunks(_, _, _, _)
\* TextWrapper._wrap_chunks with drop_whitespace and without breaking long
\* words: i is the next chunk, lines the lines made so far
_wrap_chunks(chunks, i, lines, width) ==
    IF i > Len(chunks) THEN lines
    ELSE LET first == IF IsSpace(chunks[i]) /\ Len(lines) > 0 THEN i + 1 ELSE i
             fit == Fill(chunks, first, 0, width)
             \* _handle_long_word: a chunk wider than the line goes on a
             \* line of its own, whole
             next == IF fit <= Len(chunks) /\ Len(chunks[fit]) > width /\ fit = first
                     THEN fit + 1 ELSE fit
             last == IF next - 1 >= first /\ IsSpace(chunks[next - 1])
                     THEN next - 2 ELSE next - 1
             line == Join(SubSeq(chunks, first, last), "")
         IN  _wrap_chunks(chunks, next,
                          IF last >= first THEN Append(lines, line) ELSE lines,
                          width)

wrap(string, width) == _wrap_chunks(Chunks(string), 1, <<>>, width)

---------------------------------------------------------------------------
(* Serialization of the ALOGIT input file *)

_ALO_COMMAND_TITLE == "$title "
_ALO_COMMAND_ESTIMATE == "$estimate"
_ALO_COMMAND_COEFFICIENTS == "$coeff"
\* the alternatives command left open, to be closed after its arguments
_ALO_COMMAND_ALTERNATIVES_open == "$nest root("

_ALO_COMMAND_ALTERNATIVES == "$nest root()"
_ALO_COMMAND_ARRAY == "$array"

RECURSIVE append_args(_, _, _)
\* for arg in args: string += ' ' + self.abbreviate(arg)
append_args(abbr, string, args) ==
    IF Len(args) = 0 THEN string
    ELSE append_args(abbr, string \o " " \o abbreviate(abbr, Head(args)), Tail(args))

\* _alo_record(command, *args)
_alo_record(abbr, command, args) ==
    wrap(append_args(abbr, command, args), _MAX_LINE_LENGTH)

\* _array(array, argument)
_array(abbr, array, argument) ==
    abbreviate(abbr, array) \o "(" \o abbreviate(abbr, argument) \o ")"

\* _array_record(array, argument)
_array_record(abbr, array, argument) == _array(abbr, array, argument) \o " ="

\* _specify_data_file()
_specify_data_file(labels, file) ==
    wrap("file (name=" \o file \o ") " \o Join(labels, " "), _MAX_LINE_LENGTH)

\* _define_alternatives()
_define_alternatives(m, abbr) ==
    wrap("choice=recode(" \o _ALO_LABEL_CHOICE_COLUMN \o " "
         \o Join([i \in 1..Len(m.alternatives) |-> abbreviate(abbr, m.alternatives[i])], ", ")
         \o ")", _MAX_LINE_LENGTH)

\* _utility_string(choice)
_utility_string(m, abbr, choice) ==
    LET utility == Lookup(m.specification, choice)
        adv == Range(keys(m.alternative_dependent_variables))
        head == IF utility.intercept # None
                THEN <<abbreviate(abbr, utility.intercept)>> ELSE <<>>
        term(t) == IF t.variable \in adv
                   THEN abbreviate(abbr, t.parameter) \o "*"
                        \o abbreviate(abbr, t.variable) \o "("
                        \o abbreviate(abbr, choice) \o ")"
                   ELSE abbreviate(abbr, t.parameter) \o "*"
                        \o abbreviate(abbr, t.variable)
    IN  Join(head \o [k \in 1..Len(utility.terms) |-> term(utility.terms[k])], " + ")

\* the records with the recode record written after the array records
alo_records_arrays_first(m, abbr, labels, file) ==
    LET alts == m.alternatives
        adv == m.alternative_dependent_variables
        avail == [a \in 1..Len(alts) |->
            _alo_record(abbr, _array_record(abbr, "Avail", alts[a]),
                        <<Lookup(m.availability, alts[a])>>)]
        arrays == Flatten([v \in 1..Len(adv) |->
            <<_alo_record(abbr, _ALO_COMMAND_ARRAY, <<_array(abbr, adv[v][1], "alts")>>)>>
            \o [c \in 1..Len(adv[v][2]) |->
                  _alo_record(abbr, _array_record(abbr, adv[v][1], adv[v][2][c][1]),
                              <<adv[v][2][c][2]>>)]])
        utils == [a \in 1..Len(alts) |->
            _alo_record(abbr, _array_record(abbr, "Util", alts[a]),
                        <<_utility_string(m, abbr, alts[a])>>)]
    IN  <<_alo_record(abbr, _ALO_COMMAND_TITLE, <<m.title>>),
          _alo_record(abbr, _ALO_COMMAND_ESTIMATE, <<>>),
          _alo_record(abbr, _ALO_COMMAND_COEFFICIENTS,
                      m.parameters \o values(m.intercepts)),
          _alo_record(abbr, _ALO_COMMAND_ALTERNATIVES, alts),
          _specify_data_file(labels, file)>>
        \o avail
        \o arrays
        \o <<_define_alternatives(m, abbr)>>
        \o utils

\* the records of _create_alo_file, each the list of lines one call adds
alo_records(m, abbr, labels, file) ==
    LET alts == m.alternatives
        adv == m.alternative_dependent_variables
        avail == [a \in 1..Len(alts) |->
            _alo_record(abbr, _array_record(abbr, "Avail", alts[a]),
                        <<Lookup(m.availability, alts[a])>>)]
        arrays == Flatten([v \in 1..Len(adv) |->
            <<_alo_record(abbr, _ALO_COMMAND_ARRAY, <<_array(abbr, adv[v][1], "alts")>>)>>
            \o [c \in 1..Len(adv[v][2]) |->
                  _alo_record(abbr, _array_record(abbr, adv[v][1], adv[v][2][c][1]),
                              <<adv[v][2][c][2]>>)]])
        utils == [a \in 1..Len(alts) |->
            _alo_record(abbr, _array_record(abbr, "Util", alts[a]),
                        <<_utility_string(m, abbr, alts[a])>>)]
    IN  <<_alo_record(abbr, _ALO_COMMAND_TITLE, <<m.title>>),
          _alo_record(abbr, _ALO_COMMAND_ESTIMATE, <<>>),
          _alo_record(abbr, _ALO_COMMAND_COEFFICIENTS,
                      m.parameters \o values(m.intercepts)),
          _alo_record(abbr, _ALO_COMMAND_ALTERNATIVES, alts),
          _specify_data_file(labels, file)>>
        \o avail
        \o <<_define_alternatives(m, abbr)>>
        \o arrays
        \o utils

\* _create_alo_file(): the lines of all records, in order
_create_alo_file(m, abbr, labels, file) == Flatten(alo_records(m, abbr, labels, file))

---------------------------------------------------------------------------
(* The models and keyword arguments an interface is constructed with *)

Titles ==
    {"synthetic", "choice",
     "A synthetic multinomial logit model of the choice of a mode of transport in a town",
     "/home/user/projects/transport/models/multinomial/grenoble/mode_choice_model_2019"}

DataFileArguments ==
    {None, "data.csv",
     "/home/user/projects/transport/models/multinomial/grenoble/data/observations.csv"}

Variants == {"plain", "independent", "avail_as_alt", "shared_avail", "param_as_var"}

\* a model as a caller may declare it: the synthetic model, or the synthetic
\* model with an alternative independent variable added, or with names that
\* occur in two roles
variant(m, v) ==
    LET alts == m.alternatives
    IN  CASE v = "plain" -> m
          [] v = "independent" ->
               [m EXCEPT !.alternative_independent_variables = <<"income">>,
                         !.parameters = @ \o <<"p_income">>,
                         !.specification = [i \in 1..Len(@) |->
                             <<@[i][1], [@[i][2] EXCEPT !.terms = @ \o
                                 <<[parameter |-> "p_income", variable |-> "income"]>>]>>]]
          [] v = "avail_as_alt" ->
               [m EXCEPT !.availability = [i \in 1..Len(alts) |-> <<alts[i], alts[i]>>]]
          [] v = "shared_avail" ->
               [m EXCEPT !.availability = [i \in 1..Len(alts) |-> <<alts[i], "availability1">>]]
          [] v = "param_as_var" ->
               [m EXCEPT !.parameters = keys(m.alternative_dependent_variables),
                         !.specification = [i \in 1..Len(@) |->
                             <<@[i][1], [@[i][2] EXCEPT !.terms = [k \in 1..Len(@) |->
                                 [parameter |-> @[k].variable, variable |-> @[k].variable]]]>>]]

Models ==
    {variant(synthetic_model(t, n, k), v) :
        t \in Titles, n \in 1..MaxAlternatives, k \in 0..MaxVariables, v \in Variants}
    \cup {[synthetic_model("synthetic", 2, 1) EXCEPT !.type = "ChoiceModel"]}

---------------------------------------------------------------------------
(* Construction: Interface.__init__ and AlogitInterface.__init__ *)

_valid_models == {"MultinomialLogit"}

\* Interface._ensure_valid_model
_ensure_valid_model(m) == IF m.type \notin _valid_models THEN "TypeError" ELSE None

\* the flag requires_estimation reads, as Interface.__init__ leaves it
initially_estimated == FALSE

\* prefix = self.model.title.split(' ')[0]; data_file from the keyword
\* argument, or prefix + '.csv'
default_data_file(m, kw) ==
    IF kw # None THEN kw ELSE split_on(m.title, " ")[1] \o ".csv"

\* column_labels = [self.abbreviate(label) for label in model.data.columns]
make_column_labels(d, abbr) ==
    [i \in 1..Len(columns(d)) |-> abbreviate(abbr, columns(d)[i])]

NoInstance ==
    /\ data_file = Unset
    /\ abbreviation = Unset
    /\ elongation = Unset
    /\ column_labels = Unset
    /\ alo = Unset
    /\ _estimated = Unset
    /\ _parameters = Unset
    /\ _errors = Unset
    /\ _t_values = Unset
    /\ _null_log_likelihood = Unset
    /\ _final_log_likelihood = Unset
    /\ _estimation_time = Unset
    /\ process = Unset
    /\ alo_file_lines = Unset
    /\ data_file_table = Unset
    /\ exits = <<>>
    /\ ret = [op |-> "none", exc |-> None, value |-> None]

results == <<_parameters, _errors, _t_values, _null_log_likelihood,
             _final_log_likelihood, _estimation_time>>
registry == <<data_file, abbreviation, elongation, column_labels, alo>>
inputs == <<model, kw_data_file, arguments>>
tables == <<data, data_file_table>>

\* AlogitInterface(model, alogit_path=..., data_file=kw_data_file)
New ==
    /\ pc = "init"
    /\ IF _ensure_valid_model(model) # None
       THEN /\ pc' = "failed"
            /\ ret' = [op |-> "__init__", exc |-> _ensure_valid_model(model), value |-> None]
            /\ UNCHANGED <<registry, _estimated>>
       ELSE LET file == default_data_file(model, kw_data_file)
                dicts == _create_abbreviations(model)
                labels == make_column_labels(data, dicts.abbreviation)
            IN  /\ pc' = "ready"
                /\ _estimated' = initially_estimated
                /\ data_file' = file
                /\ abbreviation' = dicts.abbreviation
                /\ elongation' = dicts.elongation
                /\ column_labels' = labels
                /\ alo' = _create_alo_file(model, dicts.abbreviation, labels, file)
                /\ ret' = [op |-> "__init__", exc |-> None, value |-> None]
    /\ UNCHANGED <<inputs, tables, results, process, log_file, alo_file_lines, exits>>

\* the strings abbreviate() and elongate() are called with: every registered
\* name and token, and strings that are neither
Strings ==
    IF pc = "ready"
    THEN DOMAIN abbreviation \cup DOMAIN elongation \cup {"alts", "zz9", "prm9"}
    ELSE {}

\* interface.abbreviate(string)
Abbreviate(string) ==
    /\ pc = "ready"
    /\ ret' = [op |-> "abbreviate", arg |-> string, exc |-> None,
               value |-> abbreviate(abbreviation, string)]
    /\ UNCHANGED <<pc, inputs, tables, registry, _estimated, results, process, log_file, alo_file_lines, exits>>

\* interface.elongate(string)
Elongate(string) ==
    /\ pc = "ready"
    /\ ret' = [op |-> "elongate", arg |-> string,
               exc |-> elongate(elongation, string).exc,
               value |-> elongate(elongation, string).value]
    /\ UNCHANGED <<pc, inputs, tables, registry, _estimated, results, process, log_file, alo_file_lines, exits>>

InitNew ==
    /\ pc = "init"
    /\ model \in Models
    /\ arguments = Unset
    /\ kw_data_file \in DataFileArguments
    /\ data = synthetic_data_uniform(model, one_record(model))
    /\ log_file = <<>>
    /\ NoInstance

NextNew ==
    \/ New
    \/ \E string \in Strings : Abbreviate(string)
    \/ \E string \in Strings : Elongate(string)

SpecNew == InitNew /\ [][NextNew]_vars

---------------------------------------------------------------------------
(* Parsing the solver's log: _parse_output_file *)

\* float(s) for a plain decimal numeral with at most two decimals, in
\* hundredths; any other word of this model's logs is no number
float(s) ==
    LET digit(c) == CHOOSE d \in 0..9 : ToString(d) = c
        isDigits(w) == \A i \in 1..Len(w) : SubSeq(w, i, i) \in {ToString(d) : d \in 0..9}
        neg == s # "" /\ SubSeq(s, 1, 1) = "-"
        body == IF neg THEN SubSeq(s, 2, Len(s)) ELSE s
        parts == split_on(body, ".")
        whole == parts[1]
        frac == IF Len(parts) = 2 THEN parts[2] ELSE ""
        ok == /\ Len(parts) <= 2
              /\ isDigits(whole) /\ isDigits(frac)
              /\ Len(whole) + Len(frac) > 0
              /\ Len(whole) <= 2 /\ Len(frac) <= 2
        at(w, i) == IF i <= Len(w) THEN digit(SubSeq(w, i, i)) ELSE 0
        wholeValue == IF Len(whole) = 2 THEN 10 * at(whole, 1) + at(whole, 2)
                      ELSE at(whole, 1)
        magnitude == 100 * wholeValue + 10 * at(frac, 1) + at(frac, 2)
    IN  IF ok THEN [exc |-> None, value |-> IF neg THEN 0 - magnitude ELSE magnitude]
        ELSE [exc |-> "ValueError", value |-> None]

\* words[index] for a Python index counted from the front (0, 1, ..)
item(words, index) ==
    IF index + 1 <= Len(words) THEN [exc |-> None, value |-> words[index + 1]]
    ELSE [exc |-> "IndexError", value |-> None]

\* line.split()[-1]
last_field(words) == words[Len(words)]

\* the last field taken where the second-to-last is meant
time_field_last(words) == words[Len(words)]

\* line.split()[-2]
time_field(words) == words[Len(words) - 1]

\* dictionary[key] = value
put(dictionary, key, value) ==
    [k \in DOMAIN dictionary \cup {key} |-> IF k = key THEN value ELSE dictionary[k]]

\* the body of the loop over the coefficient rows, for one row: result_line
\* is the split line, st the attributes of the instance; an exception leaves
\* the assignments made before it
read_row(result_line, elong, st) ==
    LET token == item(result_line, 0)
        parameter == IF token.exc = None THEN elongate(elong, token.value) ELSE token
        field(n) == LET w == item(result_line, n)
                    IN  IF w.exc = None THEN float(w.value) ELSE w
        e == field(1)
        se == field(2)
        t == field(3)
        s1 == [st EXCEPT !._parameters = <<put(@[1], parameter.value, e.value)>>]
        s2 == [s1 EXCEPT !._errors = <<put(@[1], parameter.value, se.value)>>]
        s3 == [s2 EXCEPT !._t_values = <<put(@[1], parameter.value, t.value)>>]
    IN  IF parameter.exc # None THEN [st EXCEPT !.exc = parameter.exc]
        ELSE IF e.exc # None THEN [st EXCEPT !.exc = e.exc]
        ELSE IF se.exc # None THEN [s1 EXCEPT !.exc = se.exc]
        ELSE IF t.exc # None THEN [s2 EXCEPT !.exc = t.exc]
        ELSE s3

RECURSIVE read_rows(_, _, _, _, _)
\* for result in range(K): result_line = outfile.readline().split() ...
\* i is the next line of the file; readline() at the end of the file
\* returns '', which splits to no word
read_rows(lines, i, remaining, elong, st) ==
    IF remaining = 0 \/ st.exc # None THEN [st |-> st, next |-> i]
    ELSE LET result_line == IF i <= Len(lines) THEN split(lines[i]) ELSE <<>>
             next == IF i <= Len(lines) THEN i + 1 ELSE i
         IN  read_rows(lines, next, remaining - 1, elong,
                       read_row(result_line, elong, st))

FINAL_TRIGGER == "Final value of Log Likelihood"
INITIAL_TRIGGER == "Initial Log Likelihood"
HEADER_TRIGGER == "Coefficient   Estimate   Std. Error 't' ratio"
TIME_TRIGGER == "Estimation time"

RECURSIVE scan(_, _, _, _, _)
\* for line in outfile: ...  (i is the next line of the file)
scan(lines, i, K, elong, st) ==
    IF st.exc # None \/ i > Len(lines) THEN st
    ELSE LET line == lines[i]
             words == split(line)
         IN  IF Contains(line, FINAL_TRIGGER)
             THEN LET f == float(last_field(words))
                  IN  IF f.exc # None THEN [st EXCEPT !.exc = f.exc]
                      ELSE scan(lines, i + 1, K, elong,
                                [st EXCEPT !._final_log_likelihood = <<f.value>>])
             ELSE IF Contains(line, INITIAL_TRIGGER)
             THEN LET f == float(last_field(words))
                  IN  IF f.exc # None THEN [st EXCEPT !.exc = f.exc]
                      ELSE scan(lines, i + 1, K, elong,
                                [st EXCEPT !._null_log_likelihood = <<f.value>>])
             ELSE IF Contains(line, HEADER_TRIGGER)
             THEN LET r == read_rows(lines, i + 1, K, elong, st)
                  IN  scan(lines, r.next, K, elong, r.st)
             ELSE IF Contains(line, TIME_TRIGGER)
             THEN LET f == float(time_field(words))
                  IN  IF f.exc # None THEN [st EXCEPT !.exc = f.exc]
                      ELSE scan(lines, i + 1, K, elong,
                                [st EXCEPT !._estimation_time = <<f.value>>])
             ELSE scan(lines, i + 1, K, elong, st)

\* the attributes _parse_output_file assigns, as a record
attributes ==
    [_parameters |-> _parameters, _errors |-> _errors, _t_values |-> _t_values,
     _null_log_likelihood |-> _null_log_likelihood,
     _final_log_likelihood |-> _final_log_likelihood,
     _estimation_time |-> _estimation_time, exc |-> None]

\* _parse_output_file(): the three dicts are emptied, then the file is
\* scanned; the record holds the attributes afterwards and the exception
\* raised, if any
_parse_output_file(lines, m, elong, st) ==
    scan(lines, 1, number_of_parameters(m, TRUE), elong,
         [st EXCEPT !._parameters = <<EmptyDict>>, !._errors = <<EmptyDict>>,
                    !._t_values = <<EmptyDict>>])

\* the attributes of the record become the attributes of the instance
Assign(st) ==
    /\ _parameters' = st._parameters
    /\ _errors' = st._errors
    /\ _t_values' = st._t_values
    /\ _null_log_likelihood' = st._null_log_likelihood
    /\ _final_log_likelihood' = st._final_log_likelihood
    /\ _estimation_time' = st._estimation_time

---------------------------------------------------------------------------
(* The logs the solver may leave *)

MaxParseLogLines == 4

InitialLine == "Initial Log Likelihood -50.0"
FinalLine == " Final value of Log Likelihood   -40.0"
HeaderLine == " Coefficient   Estimate   Std. Error 't' ratio"
Row1 == "prm1 0.50 0.10 5.0"
Row2 == "c1 1.20 0.30 4.0"
RowUnknown == "zz9 0.7 0.2 3.5"
TimeLine == "Estimation time 3.2 seconds"

LogLines == {InitialLine, FinalLine, HeaderLine, Row1, Row2, RowUnknown, TimeLine}

\* the files of at most n lines, each line one of lines
Logs(lines, n) == UNION {[1..k -> lines] : k \in 0..n}

\* the models the parser is exercised with: K = 1 (prm1) and K = 2 (prm1, c1)
ParseModels == {synthetic_model("synthetic", 1, 1), synthetic_model("synthetic", 2, 1)}

\* interface._parse_output_file(log_file_path), the file holding log_file
ParseOutputFile ==
    /\ pc = "ready"
    /\ LET st == _parse_output_file(log_file, model, elongation, attributes)
       IN  /\ Assign(st)
           /\ ret' = [op |-> "_parse_output_file", exc |-> st.exc, value |-> None]
    /\ UNCHANGED <<pc, inputs, tables, registry, _estimated, process, log_file, alo_file_lines, exits>>

InitParse ==
    /\ pc = "init"
    /\ model \in ParseModels
    /\ arguments = Unset
    /\ kw_data_file = None
    /\ data = synthetic_data_uniform(model, one_record(model))
    /\ log_file \in Logs(LogLines, MaxParseLogLines)
    /\ NoInstance

NextParse ==
    \/ New
    \/ ParseOutputFile

SpecParse == InitParse /\ [][NextParse]_vars

---------------------------------------------------------------------------
(* estimate() and the guarded accessors *)

MaxEstimateCalls == 2
MaxLogLines == 2

ReturnCodes == {0, 1}

\* the lines of the logs the solver leaves in the runs of Spec, whose model
\* has the one coefficient prm1
RunLogLines == {FinalLine, HeaderLine, Row1, RowUnknown}

\* subprocess.run(..., capture_output=True): the completed process of the
\* n-th run
completed(returncode, n) ==
    [returncode |-> returncode,
     stdout |-> "output of run " \o ToString(n),
     stderr |-> IF returncode = 0 THEN "" ELSE "error of run " \o ToString(n)]

\* the flag is set whatever the exit status
succeeded_always(returncode) == TRUE

\* process.returncode == 0
succeeded(returncode) == returncode = 0

\* np.arange(number_of_alternatives, dtype=float) + 1, as to_csv writes the
\* numbers: "1.0", "2.0", ...
arange_float_plus_1(n) == [i \in 1..n |-> ToString(i) \o ".0"]

\* _write_data_file(): the data frame it leaves in model.data and the
\* columns it writes to the data file; an exception leaves the frame as the
\* statements before it made it, and the file as it was
_write_data_file(m, d) ==
    LET choice_encoding ==
            dict_zip(m.alternatives, arange_float_plus_1(number_of_alternatives(m)))
        chosen == SelectSeq(d, LAMBDA col : col.label = m.choice_column)
        raise(exc, frame) ==
            [exc |-> exc, data |-> frame, written |-> FALSE, table |-> <<>>]
    IN  IF Len(chosen) = 0 THEN raise("KeyError", d)
        ELSE IF \E r \in 1..Len(chosen[1].cells) :
                    chosen[1].cells[r] \notin DOMAIN choice_encoding
        THEN raise("KeyError", d)
        ELSE
        LET encoded == [r \in 1..Len(chosen[1].cells) |->
                           choice_encoding[chosen[1].cells[r]]]
            encoded_data == setitem(d, _ALO_LABEL_CHOICE_COLUMN, encoded)
            columns_but_last == SubSeq(columns(encoded_data), 1, Len(encoded_data) - 1)
            position == list_index(columns_but_last, m.choice_column)
        IN  IF position = 0 THEN raise("ValueError", encoded_data)
            ELSE [exc |-> None,
                  data |-> drop(encoded_data, _ALO_LABEL_CHOICE_COLUMN),
                  written |-> TRUE,
                  table |-> to_csv(encoded_data,
                      [columns_but_last EXCEPT ![position] = _ALO_LABEL_CHOICE_COLUMN])]

\* estimate(): the input file and the data file are written, the solver
\* exits with returncode and, when it exits zero, has written the log
\* new_log.  (What a failing run leaves in the log is never read: log_file
\* keeps the last log that was parsed.)  When writing the data file raises,
\* the solver is not run.
Estimate(returncode, new_log) ==
    /\ pc = "ready"
    /\ Len(exits) < MaxEstimateCalls
    /\ alo_file_lines' = alo
    /\ LET w == _write_data_file(model, data)
       IN  /\ data' = w.data
           /\ data_file_table' = IF w.written THEN <<w.table>> ELSE data_file_table
           /\ IF w.exc # None
              THEN /\ ret' = [op |-> "estimate", returncode |-> None,
                              exc |-> w.exc, value |-> None, before |-> data, wrote |-> w.written]
                   /\ UNCHANGED <<_estimated, results, log_file, process, exits>>
              ELSE
              /\ exits' = Append(exits, returncode)
              /\ IF succeeded(returncode)
                 THEN LET st == _parse_output_file(new_log, model, elongation, attributes)
                      IN  /\ _estimated' = TRUE
                          /\ log_file' = new_log
                          /\ Assign(st)
                          /\ process' = IF st.exc = None
                                        THEN <<completed(returncode, Len(exits) + 1)>>
                                        ELSE process
                          /\ ret' = [op |-> "estimate", returncode |-> returncode,
                                     exc |-> st.exc, value |-> None, before |-> data, wrote |-> w.written]
                 ELSE /\ process' = <<completed(returncode, Len(exits) + 1)>>
                      /\ ret' = [op |-> "estimate", returncode |-> returncode,
                                 exc |-> None, value |-> None, before |-> data, wrote |-> w.written]
                      /\ UNCHANGED <<_estimated, results, log_file>>
    /\ UNCHANGED <<pc, inputs, registry>>

\* self.<attribute>: reading an attribute that was never assigned raises
attribute(value) ==
    IF value = Unset THEN [exc |-> "AttributeError", value |-> None]
    ELSE [exc |-> None, value |-> value[1]]

\* the body of display_results(): what it prints
display_results_body(p) ==
    IF p = Unset THEN [exc |-> "AttributeError", value |-> None]
    ELSE IF p[1].returncode # 0
         THEN [exc |-> None,
               value |-> <<"ALOGIT returned non-zero return code", p[1].stderr>>]
         ELSE [exc |-> None, value |-> <<p[1].stdout>>]

\* @requires_estimation: the method runs only on an estimated instance
requires_estimation(flag, outcome) ==
    IF ~flag
    THEN [exc |-> "NotEstimated", value |-> None]
    ELSE outcome

Accessors ==
    {"display_results", "null_log_likelihood", "final_log_likelihood",
     "parameters", "standard_errors", "t_values", "estimation_time"}

ResultAccessors == Accessors \ {"display_results"}

\* what a call of the accessor returns or raises in the current state
accessor(name) ==
    requires_estimation(_estimated,
        CASE name = "display_results" -> display_results_body(process)
          [] name = "null_log_likelihood" -> attribute(_null_log_likelihood)
          [] name = "final_log_likelihood" -> attribute(_final_log_likelihood)
          [] name = "parameters" -> attribute(_parameters)
          [] name = "standard_errors" -> attribute(_errors)
          [] name = "t_values" -> attribute(_t_values)
          [] name = "estimation_time" -> attribute(_estimation_time))

\* interface.<name>()
Call(name) ==
    /\ pc = "ready"
    /\ ret' = [op |-> name, exc |-> accessor(name).exc, value |-> accessor(name).value]
    /\ UNCHANGED <<pc, inputs, tables, registry, _estimated, results, process,
                   log_file, alo_file_lines, exits>>

Init ==
    /\ pc = "init"
    /\ model = synthetic_model("synthetic", 1, 1)
    /\ arguments = Unset
    /\ kw_data_file = None
    /\ data = synthetic_data_uniform(model, one_record(model))
    /\ log_file = <<>>
    /\ NoInstance

Next ==
    \/ New
    \/ \E returncode \in ReturnCodes, new_log \in Logs(RunLogLines, MaxLogLines) :
          Estimate(returncode, new_log)
    \/ \E name \in Accessors : Call(name)

Spec == Init /\ [][Next]_vars

---------------------------------------------------------------------------
(* synthetic_model and synthetic_data_uniform, and an interface to the model
   they give *)

NumbersOfAlternatives == 0..MaxAlternatives
NumbersOfVariables == 0..MaxVariables

\* model = synthetic_model(title, number_of_alternatives, number_of_variables):
\* alternatives[-1] raises IndexError when there is no alternative
SyntheticModel ==
    /\ pc = "arguments"
    /\ IF arguments.number_of_alternatives = 0
       THEN /\ pc' = "failed"
            /\ ret' = [op |-> "synthetic_model", exc |-> "IndexError", value |-> None]
            /\ UNCHANGED model
       ELSE /\ pc' = "built"
            /\ model' = synthetic_model(arguments.title,
                                        arguments.number_of_alternatives,
                                        arguments.number_of_variables)
            /\ ret' = [op |-> "synthetic_model", exc |-> None, value |-> None]
    /\ UNCHANGED <<kw_data_file, arguments, tables, registry, _estimated, results,
                   process, log_file, alo_file_lines, exits>>

\* the model is given the data of synthetic_data_uniform(model, n), choices
\* being the n alternatives drawn
SyntheticDataUniform(choices) ==
    /\ pc = "built"
    /\ pc' = "init"
    /\ data' = synthetic_data_uniform(model, choices)
    /\ ret' = [op |-> "synthetic_data_uniform", exc |-> None, value |-> None]
    /\ UNCHANGED <<inputs, data_file_table, registry, _estimated, results, process,
                   log_file, alo_file_lines, exits>>

InitSynthetic ==
    /\ pc = "arguments"
    /\ arguments \in [title : Titles,
                      number_of_alternatives : NumbersOfAlternatives,
                      number_of_variables : NumbersOfVariables]
    /\ model = Unset
    /\ data = Unset
    /\ kw_data_file = None
    /\ log_file = <<>>
    /\ NoInstance

NextSynthetic ==
    \/ SyntheticModel
    \/ \E n \in 1..MaxObservations :
          \E choices \in [1..n -> IF pc = "built" THEN Range(model.alternatives) ELSE {}] :
             SyntheticDataUniform(choices)
    \/ New

SpecSynthetic == InitSynthetic /\ [][NextSynthetic]_vars

---------------------------------------------------------------------------
(* estimate() on models with data tables of several layouts *)

\* the names a caller gives the choice column
ChoiceColumns == {"choice", "alt"}

\* the synthetic models, with the choice column named by the caller
DataModels ==
    {[synthetic_model("synthetic", n, k) EXCEPT !.choice_column = c] :
        n \in 1..MaxAlternatives, k \in 0..1, c \in ChoiceColumns}

\* the column labels of the tables a model's data is loaded from: laid out
\* as synthetic_data does, or with the choice column first, or with one more
\* column at the end that the model does not use
Layouts(m) ==
    LET used == all_variable_fields(m) \o availability_fields(m)
    IN  {used \o <<m.choice_column>>,
         <<m.choice_column>> \o used,
         used \o <<m.choice_column, "weight">>}
        \cup (IF m.choice_column = _ALO_LABEL_CHOICE_COLUMN THEN {}
              ELSE {used \o <<m.choice_column, "alt">>})

\* the choice columns of the tables: up to MaxObservations records, each
\* choosing one of the model's alternatives
Choices(m) ==
    UNION {[1..n -> Range(m.alternatives)] : n \in 1..MaxObservations}

DataFrames(m) ==
    {DataFrame(m, labels, choices) : labels \in Layouts(m), choices \in Choices(m)}

\* the log of the runs: the parser finds no coefficient table in it
DataRunLog == <<FinalLine>>

InitData ==
    /\ pc = "init"
    /\ model \in DataModels
    /\ arguments = Unset
    /\ kw_data_file = None
    /\ data \in DataFrames(model)
    /\ log_file = <<>>
    /\ NoInstance

NextData ==
    \/ New
    \/ \E returncode \in ReturnCodes : Estimate(returncode, DataRunLog)

SpecData == InitData /\ [][NextData]_vars

---------------------------------------------------------------------------
(* Properties of estimate() and the accessors (checked under Spec) *)

AfterEstimate == pc = "ready" /\ ret.op = "estimate"
Failed(name) == accessor(name).exc # None

\* C1 as stated: immediately after an estimate() whose solver run exits
\* nonzero the instance is unestimated and every result accessor fails, also
\* when an earlier estimate() on the instance succeeded.
C1_UnestimatedAfterFailedRun ==
    (AfterEstimate /\ ret.returncode # 0) =>
        /\ ~_estimated
        /\ \A name \in ResultAccessors : Failed(name)

\* C2 as stated: when the solver exits zero and parsing its log fails,
\* estimate() fails and nothing partial is retained: the instance is not
\* estimated and no accessor returns a partly filled mapping.
C2_NothingRetainedAfterParseFailure ==
    (AfterEstimate /\ ret.returncode = 0 /\ ret.exc # None) =>
        /\ ~_estimated
        /\ \A name \in {"parameters", "standard_errors", "t_values"} : Failed(name)

C4_FailedRunOutputDisplayed ==
    (AfterEstimate /\ ret.returncode # 0) =>
        /\ ret.exc = None
        /\ process = <<completed(ret.returncode, Len(exits))>>
        /\ accessor("display_results").exc = None
        /\ process[1].stderr \in Range(accessor("display_results").value)

---------------------------------------------------------------------------
(* Properties of the parser (checked under SpecParse) *)

AfterParse == pc = "ready" /\ ret.op = "_parse_output_file"

\* C5 as stated: parsing fails, with no silent or partial result, whenever
\* the log has no coefficient table header or has fewer than K lines after
\* the header.
C5_ParseFailsWithoutHeaderOrRows ==
    AfterParse =>
        LET K == number_of_parameters(model, TRUE)
            headers == {i \in 1..Len(log_file) : log_file[i] = HeaderLine}
        IN  (headers = {} \/ \E h \in headers : Len(log_file) - h < K)
                => ret.exc # None

\* what the rows and the trigger lines of the logs say
RowFacts ==
    [line \in {Row1, Row2} |->
        IF line = Row1
        THEN [token |-> "prm1", estimate |-> 50, error |-> 10, t |-> 500]
        ELSE [token |-> "c1", estimate |-> 120, error |-> 30, t |-> 400]]

\* the log is one header line, followed by K rows with registered tokens,
\* with any lines but a header before and after
TableWithRegisteredRows(h) ==
    LET K == number_of_parameters(model, TRUE)
    IN  /\ h \in 1..Len(log_file)
        /\ \A i \in 1..Len(log_file) : (log_file[i] = HeaderLine) <=> (i = h)
        /\ h + K <= Len(log_file)
        /\ \A j \in (h + 1)..(h + K) :
              /\ log_file[j] \in DOMAIN RowFacts
              /\ RowFacts[log_file[j]].token \in DOMAIN elongation

\* C6: for a log whose header is followed by K rows with registered tokens,
\* the parser reads exactly those K lines as rows, stores each row's
\* estimate, standard error and t-value under elongate(token), and matches
\* triggers again from the line after the K-th row: the likelihood and time
\* lines before and after the table are captured (the likelihoods from the
\* last field, the time from the second-to-last), and nothing else is.
C6_TableAndTriggersCaptured ==
    AfterParse =>
        \A h \in 1..Len(log_file) : TableWithRegisteredRows(h) =>
            LET K == number_of_parameters(model, TRUE)
                rows == (h + 1)..(h + K)
                outside == (1..Len(log_file)) \ (h..(h + K))
                name(j) == elongation[RowFacts[log_file[j]].token]
                isLast(j) == \A k \in rows : k > j => name(k) # name(j)
                captured(line, value) ==
                    IF \E i \in outside : log_file[i] = line THEN <<value>> ELSE Unset
            IN  /\ ret.exc = None
                /\ DOMAIN _parameters[1] = {name(j) : j \in rows}
                /\ DOMAIN _errors[1] = {name(j) : j \in rows}
                /\ DOMAIN _t_values[1] = {name(j) : j \in rows}
                /\ \A j \in rows : isLast(j) =>
                      /\ _parameters[1][name(j)] = RowFacts[log_file[j]].estimate
                      /\ _errors[1][name(j)] = RowFacts[log_file[j]].error
                      /\ _t_values[1][name(j)] = RowFacts[log_file[j]].t
                /\ _null_log_likelihood = captured(InitialLine, 0 - 5000)
                /\ _final_log_likelihood = captured(FinalLine, 0 - 4000)
                /\ _estimation_time = captured(TimeLine, 320)

\* a table of two rows with the time line after it
C6_Witness ==
    /\ AfterParse
    /\ number_of_parameters(model, TRUE) = 2
    /\ TableWithRegisteredRows(1)
    /\ Len(log_file) = 4
    /\ log_file[4] = TimeLine
    /\ _estimation_time = <<320>>
    /\ DOMAIN _parameters[1] = {"parameter1", "c1"}

---------------------------------------------------------------------------
(* Properties of the serialized input (checked under SpecNew) *)

LineLimit == 77

RecordHeads ==
    LET words(i) == split(alo[i])
        commands == {"$title", "$estimate", "$coeff", "$nest", "file", "$array",
                     "choice=recode(alt"}
        starts(i) == \/ words(i)[1] \in commands
                     \/ Len(words(i)) >= 2 /\ words(i)[2] = "="
        lines == SelectSeq([i \in 1..Len(alo) |-> i], starts)
    IN  [k \in 1..Len(lines) |-> words(lines[k])[1]]

\* the heads of the records the model calls for, with the recode record
\* before the array records or after them
ExpectedHeads(recodeFirst) ==
    LET alts == model.alternatives
        adv == model.alternative_dependent_variables
        tok(name) == abbreviation[name]
        of(array, alt) == array \o "(" \o tok(alt) \o ")"
        avail == [a \in 1..Len(alts) |-> of("Avail", alts[a])]
        arrays == Flatten([v \in 1..Len(adv) |->
                     <<"$array">> \o [a \in 1..Len(alts) |-> of(tok(adv[v][1]), alts[a])]])
        utils == [a \in 1..Len(alts) |-> of("Util", alts[a])]
        recode == <<"choice=recode(alt">>
    IN  <<"$title", "$estimate", "$coeff", "$nest", "file">> \o avail
        \o (IF recodeFirst THEN recode \o arrays ELSE arrays \o recode)
        \o utils

\* C8 as stated: title, estimate, coefficients, alternatives, data file, one
\* Avail record per alternative, then per alternative dependent variable its
\* $array record and one mapping record per alternative, then the
\* choice=recode record, then one Util record per alternative.
C8_RecodeAfterArrays ==
    pc = "ready" => RecordHeads = ExpectedHeads(FALSE)

\* C8 (amended): the records are in the order title, estimate, coefficients,
\* alternatives, data file, one Avail record per alternative, the
\* choice=recode record, then per alternative dependent variable its $array
\* record and one mapping record per alternative, then one Util record per
\* alternative in declared order.
C8_RecodeBeforeArrays ==
    pc = "ready" => RecordHeads = ExpectedHeads(TRUE)

C8_Witness ==
    /\ pc = "ready"
    /\ Len(model.alternatives) >= 2
    /\ Len(model.alternative_dependent_variables) >= 2
    /\ RecordHeads = ExpectedHeads(TRUE)

---------------------------------------------------------------------------
(* Properties of the abbreviation registry (checked under SpecNew) *)

\* the tokens in the order they were registered, and the names they stand for
Tokens == abbreviations(model)
Names == full_names(model)

\* C9 as stated: the registry is a bijection between registered long names
\* and tokens, and abbreviate(elongate(t)) == t for every registered token,
\* also when a string occurs in two roles.
C9_Bijection ==
    pc = "ready" =>
        /\ \A t, u \in DOMAIN elongation : elongation[t] = elongation[u] => t = u
        /\ \A t \in DOMAIN elongation :
              abbreviate(abbreviation, elongate(elongation, t).value) = t

\* C9 (amended): every registration has a token of its own, which elongates
\* to the name registered; a name registered more than once abbreviates to
\* the token of its last registration, so abbreviate(elongate(t)) == t holds
\* exactly for the tokens of last registrations, and the registry is a
\* bijection exactly when no name is registered twice.
C9_LastRegistrationWins ==
    pc = "ready" =>
        LET names == Names
            tokens == Tokens
            n == Len(names)
            isLast(i) == \A j \in (i + 1)..n : names[j] # names[i]
        IN  /\ Len(tokens) = n
            /\ \A i, j \in 1..n : tokens[i] = tokens[j] => i = j
            /\ DOMAIN elongation = Range(tokens)
            /\ DOMAIN abbreviation = Range(names)
            /\ \A i \in 1..n :
                  /\ elongate(elongation, tokens[i]) = [exc |-> None, value |-> names[i]]
                  /\ isLast(i) => abbreviate(abbreviation, names[i]) = tokens[i]
                  /\ (abbreviate(abbreviation, elongate(elongation, tokens[i]).value)
                        = tokens[i]) <=> isLast(i)

\* a model in which a string occurs in two roles
C9_Witness ==
    /\ pc = "ready"
    /\ \E i, j \in 1..Len(Names) : i < j /\ Names[i] = Names[j]
    /\ Len(model.intercepts) >= 1

\* C10: elongate(abbreviate(name)) == name for every registered long name;
\* abbreviate returns a never-registered name unchanged and elongate of a
\* never-registered token raises a lookup error.
C10_RoundTrip ==
    pc = "ready" =>
        LET names == Range(Names)
            tokens == Range(Tokens)
        IN  /\ \A name \in names :
                  elongate(elongation, abbreviate(abbreviation, name))
                    = [exc |-> None, value |-> name]
            /\ (ret.op = "abbreviate" /\ ret.arg \notin names) =>
                  ret.exc = None /\ ret.value = ret.arg
            /\ (ret.op = "elongate" /\ ret.arg \notin tokens) =>
                  ret.exc = "KeyError"
            /\ (ret.op = "elongate" /\ ret.arg \in tokens) =>
                  ret.exc = None /\ abbreviate(abbreviation, ret.value) \in tokens

\* elongate was called with a string that is no token
C10_Witness ==
    /\ pc = "ready"
    /\ ret.op = "elongate"
    /\ ret.arg \notin Range(Tokens)
    /\ ret.exc = "KeyError"
    /\ Len(Names) >= 5

---------------------------------------------------------------------------
(* The alternative-list record (checked under SpecNew) *)

\* the lines of alo whose first word is $nest
NestLines == SelectSeq(alo, LAMBDA line : split(line)[1] = "$nest")

\* abbreviate(alternative) for the alternatives in declared order
AlternativeTokens ==
    [a \in 1..Len(model.alternatives) |-> abbreviate(abbreviation, model.alternatives[a])]

\* C12 as stated: the alternative-list record reads $nest root(t1 t2 ...),
\* the tokens of the alternatives in declared order inside the parentheses.
C12_TokensInsideParentheses ==
    pc = "ready" =>
        NestLines = <<"$nest root(" \o Join(AlternativeTokens, " ") \o ")">>

\* C12 amended: the alternative-list record reads $nest root() t1 t2 ...,
\* the parentheses of root() empty and the tokens of the alternatives, in
\* declared order, after them, each preceded by one space.
C12_TokensAfterParentheses ==
    pc = "ready" =>
        NestLines = <<Join(<<"$nest root()">> \o AlternativeTokens, " ")>>

C12_Witness ==
    /\ pc = "ready"
    /\ Len(model.alternatives) = 2
    /\ \E i \in 1..Len(alo) : alo[i] = "$nest root() ch1 ch2"

---------------------------------------------------------------------------
(* Properties of the data file (checked under SpecData) *)

\* the column of frame d labelled label: its cells
column(d, label) == d[list_index(columns(d), label)].cells

\* the 1-based number of an alternative in declared order, as the data file
\* holds a number
number_of(m, alternative) ==
    ToString(list_index(m.alternatives, alternative)) \o ".0"

\* the cells the label at position i of self.column_labels names, d being
\* the data before the call: the choice column's token names the numeric
\* encoding of the choices, another label the column it abbreviates
named_cells(d, i) ==
    LET label == column_labels[i]
        name == IF label \in DOMAIN elongation THEN elongation[label] ELSE label
    IN  IF label = _ALO_LABEL_CHOICE_COLUMN
        THEN [r \in 1..Len(column(d, model.choice_column)) |->
                 number_of(model, column(d, model.choice_column)[r])]
        ELSE IF name \in Range(columns(d)) THEN column(d, name) ELSE <<>>

WroteDataFile == pc = "ready" /\ ret.op = "estimate" /\ ret.wrote

\* C11 as stated: each time estimate() writes the data table, the columns
\* written are, position by position, the columns named by self.column_labels
\* (the labels of the 'file' record), the choice column replaced by the
\* 1-based number of the chosen alternative in declared order; and after the
\* write model.data has the columns and the choice values it had before.
C11_DataFileMatchesLabels ==
    WroteDataFile =>
        /\ Len(data_file_table[1]) = Len(column_labels)
        /\ \A i \in 1..Len(data_file_table[1]) :
              i <= Len(column_labels) =>
                  data_file_table[1][i] = named_cells(ret.before, i)
        /\ columns(data) = columns(ret.before)
        /\ model.choice_column \in Range(columns(data))
        /\ column(data, model.choice_column) = column(ret.before, model.choice_column)

---------------------------------------------------------------------------
(* The synthetic model (checked under SpecSynthetic) *)

Built == arguments # Unset /\ pc \in {"built", "init", "ready"}

\* no element occurs twice in the list
Distinct(list) == Cardinality(Range(list)) = Len(list)

\* C13: for the numbers n of alternatives and m of variables that
\* synthetic_model accepts, the model has n alternatives, one availability
\* column per alternative, m alternative dependent variables each with one
\* column per alternative, m parameters and one intercept for every
\* alternative but the last; the utility of an alternative is its intercept
\* (the last has none) and, for every variable k, parameter k times
\* variable k.
C13_SyntheticModelStructure ==
    Built =>
        LET n == arguments.number_of_alternatives
            m == arguments.number_of_variables
            alts == model.alternatives
            adv == model.alternative_dependent_variables
        IN  /\ n >= 1
            /\ model.title = arguments.title
            /\ Len(alts) = n /\ Distinct(alts)
            /\ keys(model.availability) = alts
            /\ Distinct(values(model.availability))
            /\ Len(adv) = m /\ Distinct(keys(adv))
            /\ \A v \in 1..Len(adv) : keys(adv[v][2]) = alts
            /\ Len(alternative_dependent_variable_fields(model)) = m * n
            /\ Distinct(alternative_dependent_variable_fields(model)
                        \o values(model.availability) \o <<model.choice_column>>)
            /\ model.alternative_independent_variables = <<>>
            /\ Len(model.parameters) = m /\ Distinct(model.parameters)
            /\ keys(model.intercepts) = SubSeq(alts, 1, n - 1)
            /\ Distinct(values(model.intercepts))
            /\ keys(model.specification) = alts
            /\ \A a \in 1..Len(model.specification) :
                  LET utility == model.specification[a][2]
                  IN  /\ utility.intercept =
                            IF a < n THEN Lookup(model.intercepts, alts[a]) ELSE None
                      /\ utility.terms =
                            [k \in 1..m |-> [parameter |-> model.parameters[k],
                                             variable |-> keys(adv)[k]]]

C13_Witness ==
    /\ pc = "built"
    /\ ret.op = "synthetic_model"
    /\ arguments.number_of_alternatives = 3
    /\ arguments.number_of_variables = 2
    /\ model.specification[1][2].intercept = "c1"
    /\ model.specification[3][2].intercept = None
    /\ Len(model.specification[3][2].terms) = 2

=============================================================================
